---- MODULE Spec2Model ----
(***************************************************************************)
(* YaPyCon: the command/result channel between a satellite process         *)
(* (yasara_kernel.py) and the YASARA host, and the relay the satellite     *)
(* writes its command lines through (yapycon.py).                          *)
(*                                                                         *)
(* One satellite process issues commands sequentially through runretval.   *)
(* The host is the environment: it reads the lines written to its input    *)
(* stream, connects to the advertised port and sends framed messages.      *)
(***************************************************************************)
EXTENDS Integers, Sequences, FiniteSets, TLC

\* ------------------------------------------------------------------------
\* Bounds of the model
\* ------------------------------------------------------------------------
MaxCalls == 2          \* dispatches issued by the satellite process
MaxPeers == 2          \* connections made to the listening socket
NumBusy == 1           \* ports from the starting port on that may be occupied
MaxLen == 3            \* payload lengths whose payload bytes are sent and received
MaxRelays == 2         \* stdout_relay calls made by the clients of the relay
MaxBeyond == 3         \* candidates past the last valid port the bind loop is followed to

\* ------------------------------------------------------------------------
\* Program constants
\* ------------------------------------------------------------------------
IPPORT_USERRESERVED == 5000
MAXPORT == 65535       \* bind() raises OverflowError for a port above it
RESULT == 0
ERROR == 1
HEADER_SIZE == 8
broken == "Socket connection broken"

\* ------------------------------------------------------------------------
\* Inputs
\* ------------------------------------------------------------------------
Commands == {"CountObj all", "SelectAtom all"}
ResultValues == {0, 7}
ErrorCodes == {42}
ErrorTexts == <<"bad selection">>
OtherKind == 2
BusyPorts == IPPORT_USERRESERVED .. (IPPORT_USERRESERVED + NumBusy - 1)
WorkDirs == {"/yasara"}

VARIABLES
    pc,        \* position of the satellite process
    com,       \* the module global com (the channel endpoint)
    port,      \* local variable port of yasara_communicator.__init__
    occupied,  \* ports bound by other programs
    out,       \* lines written to the host input stream, in order
    conn,      \* the host's end of its connection to the endpoint
    backlog,   \* connections waiting in the listen queue of srvsock
    accepted,  \* connections srvsock.accept has returned
    wire,      \* bytes sent by the host and not yet received
    data,      \* local variable data of receive
    hdr,       \* (messagetype, datasize) unpacked by receivemessage
    got,       \* bytes recv has returned to the receivemessage in progress or last ended
    eof,       \* recv returned no bytes, or raised, in the dispatch in progress or last ended
    rvstat,    \* state of the latest result-bearing dispatch that wrote its line
    cur,       \* the dispatch in progress
    steps,     \* socket and stream operations of the dispatch in progress
    ret,       \* outcome of the last dispatch that ended
    ncalls,    \* dispatches started
    created,   \* communicators constructed by this process
    answered,  \* result-bearing lines the host has answered
    stalled,   \* the host stopped in the middle of a message
    relaycom,  \* what the relay's get_com returned at startup
    cwd,       \* working directory of the satellite process
    glob,      \* the session globals of the satellite process
    sent,      \* what each recorded send of the host or of a peer put on the wire
    fkind,     \* header round trip: the kind the sender packs
    flen,      \* header round trip: the payload length the sender packs
    fwire,     \* header round trip: bytes sent and not yet received
    fdata,     \* header round trip: local variable data of receive
    fhdr,      \* header round trip: (messagetype, datasize) unpacked
    fgot,      \* header round trip: bytes received before the header was unpacked
    fpay,      \* header round trip: bytes received after the header was unpacked
    fpc,       \* header round trip: position of the receiver
    mainpc,    \* plugin process: position of yapycon_launch_plugin
    yas,       \* plugin process: the yasara module as the plugin sees it
    svc,       \* plugin process: the YasaraContextRelayService instance
    srv,       \* plugin process: the rpyc ThreadedServer
    thr,       \* plugin process: the RpcServerThread
    cl,        \* plugin process: the connections of the relay's clients
    seen,      \* plugin process: the latest accessor call and what it returned
    sbuf,      \* plugin process: written to the output stream, not yet flushed
    sink,      \* plugin process: what the output stream has delivered
    has,       \* plugin process: HAS_IPYTHON, HAS_RPYC, HAS_QTCONSOLE
    request,   \* plugin process: yasara.request
    exitcode,  \* plugin process: yasara.plugin.exitcode
    log,       \* plugin process: what yapycon_launch_plugin has done, in order
    opc,       \* bind loop: position of yasara_communicator.__init__
    oport,     \* bind loop: local variable port of __init__
    otop,      \* bind loop: the ports from the starting port up to it are occupied
    ocom       \* bind loop: the communicator __init__ returned

\* the variables of the header round trip and of the plugin process
framevars == <<fkind, flen, fwire, fdata, fhdr, fgot, fpay, fpc>>
plugvars == <<has, request, exitcode>>
relayvars == <<mainpc, yas, svc, srv, thr, cl, seen, sbuf, sink, plugvars, log>>

\* the variables of the bind loop followed through the whole port range
openvars == <<opc, oport, otop, ocom>>

\* the variables of the satellite process, its communicator and its host
comvars == <<pc, com, port, occupied, out, conn, backlog, accepted, wire, data,
             hdr, got, eof, rvstat, cur, steps, ret, ncalls, created, answered,
             stalled, relaycom, cwd, glob, sent>>

vars == <<comvars, framevars, relayvars, openvars>>

\* ------------------------------------------------------------------------
\* Values
\* ------------------------------------------------------------------------
NoSock == 0            \* self.sock = None
NoCom == [exists |-> FALSE, port |-> 0, sock |-> NoSock]
NoHdr == [set |-> FALSE, type |-> 0, size |-> 0]
NoExpected == -1       \* expectedtype=None
NoCall == [cmd |-> "", rv |-> FALSE, path |-> "none", expected |-> NoExpected,
           fn |-> ""]
NoRet == [tag |-> "nothing", exc |-> "", fmt |-> "", args |-> <<>>,
          withtype |-> FALSE, type |-> 0, val |-> <<>>]

\* return (messagedata)
Returned(v) == [NoRet EXCEPT !.tag = "return", !.val = v]

\* return ((messagetype, messagedata))
ReturnedPair(t, v) == [NoRet EXCEPT !.tag = "return", !.withtype = TRUE, !.type = t, !.val = v]

\* raise e(f % a)
Raised(e, f, a) == [NoRet EXCEPT !.tag = "raise", !.exc = e, !.fmt = f, !.args = a]

\* return None
ReturnNone == [NoRet EXCEPT !.tag = "None"]

\* RuntimeError(self.broken)
ConnectionBroken == Raised("RuntimeError", broken, <<>>)

\* RuntimeError("YASARA raised error %d: %s" % (messagedata[0], messagedata[1]))
HostError(messagedata) ==
    Raised("RuntimeError", "YASARA raised error %d: %s",
           <<messagedata[1], messagedata[2]>>)

\* RuntimeError("Unexpected message type received")
UnexpectedMessageKind ==
    Raised("RuntimeError", "Unexpected message type received", <<>>)

\* RuntimeError("Connection has already been accepted")
AlreadyConnected ==
    Raised("RuntimeError", "Connection has already been accepted", <<>>)

KeyboardInterrupt == Raised("KeyboardInterrupt", "", <<>>)

\* NameError: the global was never assigned
NameError(name) == Raised("NameError", "name '%s' is not defined", <<name>>)
StructError == Raised("struct.error", "unpack requires a buffer of 8 bytes", <<>>)
UnpicklingError == Raised("UnpicklingError", "pickle data was truncated", <<>>)
TypeError == Raised("TypeError", "object is not subscriptable", <<>>)

\* ------------------------------------------------------------------------
\* The request lines of runretval
\* ------------------------------------------------------------------------
\* ExecLine without the newline
ExecLine_NoNewline(command) ==
    [prefix |-> "Exec: ", port |-> 0, command |-> command, eol |-> ""]

\* 'Exec: ' + command + '\n'
ExecLine(command) ==
    [prefix |-> "Exec: ", port |-> 0, command |-> command, eol |-> "\n"]

\* 'ExecRV%d: ' % com.port + command + '\n'
ExecRVPortLine(p, command) ==
    [prefix |-> "ExecRV%d: ", port |-> p, command |-> command, eol |-> "\n"]

\* 'ExecRV: ' + command + '\n'
ExecRVLine(command) ==
    [prefix |-> "ExecRV: ", port |-> 0, command |-> command, eol |-> "\n"]

IsRVLine(l) == l.prefix \in {"ExecRV%d: ", "ExecRV: "}

RECURSIVE CountRV(_)
CountRV(s) ==
    IF s = <<>> THEN 0
    ELSE (IF IsRVLine(s[Len(s)]) THEN 1 ELSE 0) + CountRV(SubSeq(s, 1, Len(s) - 1))

\* ------------------------------------------------------------------------
\* Message framing: struct 'ii' (two native 32 bit signed integers) and the
\* pickled payload
\* ------------------------------------------------------------------------
Pack32(n) ==
    <<n % 256, (n \div 256) % 256, (n \div 65536) % 256, (n \div 16777216) % 256>>

\* Unpack32 reading the most significant byte first
Unpack32_BigEndian(b) ==
    b[4] + 256 * b[3] + 65536 * b[2]
         + 16777216 * (IF b[1] >= 128 THEN b[1] - 256 ELSE b[1])

Unpack32(b) ==
    b[1] + 256 * b[2] + 65536 * b[3]
         + 16777216 * (IF b[4] >= 128 THEN b[4] - 256 ELSE b[4])

\* struct.pack('ii', kind, size)
PackHeader(kind, size) == Pack32(kind) \o Pack32(size)

\* struct.unpack('ii', bytes8)
UnpackHeader(b) ==
    [set |-> TRUE, type |-> Unpack32(SubSeq(b, 1, 4)), size |-> Unpack32(SubSeq(b, 5, 8))]

\* pickle opcodes used by the payloads of the model
EMPTY_LIST == 93
APPEND == 97
BININT1 == 75
SHORT_BINSTRING == 85
TUPLE2 == 134
STOP == 46

RECURSIVE TextIndex(_, _)
TextIndex(t, i) ==
    IF i > Len(ErrorTexts) THEN 0
    ELSE IF ErrorTexts[i] = t THEN i ELSE TextIndex(t, i + 1)

\* pickle.dumps of a result list [n]
DumpsList(n) == <<EMPTY_LIST, BININT1, n, APPEND, STOP>>

\* pickle.dumps of an error pair (code, text)
DumpsError(code, text) ==
    <<BININT1, code, SHORT_BINSTRING, TextIndex(text, 1), TUPLE2, STOP>>

\* pickle.loads(data): the value, or a failure on bytes that are no pickle
Loads(b) ==
    IF Len(b) = 5 /\ b[1] = EMPTY_LIST /\ b[2] = BININT1 /\ b[4] = APPEND /\ b[5] = STOP
        THEN [ok |-> TRUE, pair |-> FALSE, val |-> <<b[3]>>]
    ELSE IF Len(b) = 6 /\ b[1] = BININT1 /\ b[3] = SHORT_BINSTRING
            /\ b[4] \in 1..Len(ErrorTexts) /\ b[5] = TUPLE2 /\ b[6] = STOP
        THEN [ok |-> TRUE, pair |-> TRUE, val |-> <<b[2], ErrorTexts[b[4]]>>]
    ELSE [ok |-> FALSE, pair |-> FALSE, val |-> <<>>]

\* the framed message the host sends: header, then payload
Encode(kind, payload) == PackHeader(kind, Len(payload)) \o payload

\* the messages a host can answer a result-bearing command with
HostMessages ==
    {[kind |-> RESULT, payload |-> DumpsList(v)] : v \in ResultValues}
    \cup {[kind |-> ERROR, payload |-> DumpsError(c, ErrorTexts[t])] :
            c \in ErrorCodes, t \in 1..Len(ErrorTexts)}
    \cup {[kind |-> OtherKind, payload |-> DumpsList(v)] : v \in {7}}


\* ------------------------------------------------------------------------
\* yasara_communicator
\* ------------------------------------------------------------------------
Step(op, arg) == [op |-> op, arg |-> arg]

\* RecordedPort keeping the starting port instead of the bound one
RecordedPort_Start(bound) == IPPORT_USERRESERVED

\* self.port = port, at the end of __init__
RecordedPort(bound) == bound

\* self.sock = None; self.port = port
NewCommunicator(bound) == [exists |-> TRUE, port |-> RecordedPort(bound), sock |-> NoSock]

\* NextCandidate stepping by two
NextCandidate_Skip(p) == p + 2

\* the except branch of the bind loop: port += 1
NextCandidate(p) == p + 1

\* AcceptRefused without the check
AcceptRefused_Never(sock) == FALSE

\* accept: if (self.sock != None): raise
AcceptRefused(sock) == sock # NoSock

\* ReceiveStep leaving the loop with what it has when recv returns nothing
ReceiveStep_Partial(buf, size, chunk) ==
    IF Len(chunk) = 0 THEN [st |-> "done", data |-> buf]
    ELSE LET d == buf \o chunk
         IN  [st |-> IF Len(d) < size THEN "more" ELSE "done", data |-> d]

\* ReceiveStep putting the chunk in front of what it already has
ReceiveStep_Prepend(buf, size, chunk) ==
    IF Len(chunk) = 0 THEN [st |-> "raise", data |-> <<>>]
    ELSE LET d == chunk \o buf
         IN  [st |-> IF Len(d) < size THEN "more" ELSE "done", data |-> d]

\* one turn of the loop of receive(size), given the chunk recv returned
ReceiveStep(buf, size, chunk) ==
    IF Len(chunk) = 0 THEN [st |-> "raise", data |-> <<>>]
    ELSE LET d == buf \o chunk
         IN  [st |-> IF Len(d) < size THEN "more" ELSE "done", data |-> d]

\* the number of bytes receive asks recv for
RecvSize(buf, size) == size - Len(buf)

\* ReceiveMessageResult returning the bare payload when no type is expected
ReceiveMessageResult_PayloadOnly(messagetype, messagedata, ispair, expectedtype) ==
    IF messagetype = ERROR
        THEN (IF ispair THEN HostError(messagedata) ELSE TypeError)
    ELSE IF expectedtype # NoExpected /\ messagetype # expectedtype
        THEN UnexpectedMessageKind
    ELSE Returned(messagedata)

\* ReceiveMessageResult comparing the expected type before looking for ERROR
ReceiveMessageResult_TypeFirst(messagetype, messagedata, ispair, expectedtype) ==
    IF expectedtype # NoExpected /\ messagetype # expectedtype
        THEN UnexpectedMessageKind
    ELSE IF messagetype = ERROR
        THEN (IF ispair THEN HostError(messagedata) ELSE TypeError)
    ELSE IF expectedtype = NoExpected
        THEN ReturnedPair(messagetype, messagedata)
    ELSE Returned(messagedata)

\* the tail of receivemessage, once the payload has been unpickled
ReceiveMessageResult(messagetype, messagedata, ispair, expectedtype) ==
    IF messagetype = ERROR
        THEN (IF ispair THEN HostError(messagedata) ELSE TypeError)
    ELSE IF expectedtype # NoExpected /\ messagetype # expectedtype
        THEN UnexpectedMessageKind
    ELSE IF expectedtype = NoExpected
        THEN ReturnedPair(messagetype, messagedata)
    ELSE Returned(messagedata)

\* receivemessage after receive(datasize) returned payload
receivemessage(messagetype, payload, expectedtype) ==
    LET m == Loads(payload)
    IN  IF ~m.ok THEN UnpicklingError
        ELSE ReceiveMessageResult(messagetype, m.val, m.pair, expectedtype)

\* ------------------------------------------------------------------------
\* The session globals
\* ------------------------------------------------------------------------
\* the session globals yasara_kernel takes from the relay
GlobalNames ==
    {"plugin", "request", "opsys", "version", "serialnumber", "stage", "owner",
     "permissions", "workdir", "selection", "com"}

NoGlobals == [g \in GlobalNames |-> "unset"]

\* what the relay's accessors return to a satellite process: rc for get_com,
\* w for get_workdir
RelayRoot(rc, w) ==
    [get_plugin |-> "plugin", get_request_str |-> "YaPyCon",
     get_opsys |-> "Linux", get_version |-> "20.12.24",
     get_serialnumber |-> "1234", get_stage |-> "View",
     get_owner |-> "yasara owner", get_permissions |-> "user",
     get_workdir |-> w, get_selection |-> "selection", get_com |-> rc,
     get_connection_info |-> "kernel.json"]

\* AccessorOf reading owner and permissions from each other's accessor
AccessorOf_Swapped ==
    [plugin |-> "get_plugin", request |-> "get_request_str",
     opsys |-> "get_opsys", version |-> "get_version",
     serialnumber |-> "get_serialnumber", stage |-> "get_stage",
     owner |-> "get_permissions", permissions |-> "get_owner",
     workdir |-> "get_workdir", selection |-> "get_selection",
     com |-> "get_com"]

\* the accessor each global is assigned from
AccessorOf ==
    [plugin |-> "get_plugin", request |-> "get_request_str",
     opsys |-> "get_opsys", version |-> "get_version",
     serialnumber |-> "get_serialnumber", stage |-> "get_stage",
     owner |-> "get_owner", permissions |-> "get_permissions",
     workdir |-> "get_workdir", selection |-> "get_selection",
     com |-> "get_com"]

\* plugin = std_relay_service.root.get_plugin() ... com = ...get_com()
GlobalsFromRelay(root) == [g \in GlobalNames |-> root[AccessorOf[g]]]

\* ------------------------------------------------------------------------
\* Values of the plugin process
\* ------------------------------------------------------------------------
\* the clients of the relay: satellite processes, each on its own connection
Clients == {"kernel1", "kernel2"}

\* the attributes __init__ reads from the yasara module, in its order
FieldOrder ==
    <<"plugin", "request", "opsys", "version", "serialnumber", "stage", "owner",
      "permissions", "workdir", "selection", "com">>

FieldNames == GlobalNames \cup {"connection_info"}

NoFields == [f \in FieldNames |-> "unset"]

\* no yasara module: import yasara raised ImportError, which is passed over
NoYasara == [module |-> FALSE, attrs |-> [g \in GlobalNames |-> "missing"]]

NoService == [exists |-> FALSE, stream |-> FALSE, fields |-> NoFields]

NoSeen == [client |-> "", acc |-> "", val |-> ""]

NoClient == [st |-> "off", root |-> NoFields, n |-> 0]

\* the header round trip and the plugin process are not part of this run
FrameOff ==
    /\ fkind = 0
    /\ flen = 0
    /\ fwire = <<>>
    /\ fdata = <<>>
    /\ fhdr = NoHdr
    /\ fgot = 0
    /\ fpay = 0
    /\ fpc = "off"

\* the modules whose import yapycon.py attempts under try/except ImportError
Prerequisites == {"ipython", "rpyc", "qtconsole"}

\* yasara.plugin.exitcode has not been assigned
NoExit == -1

RelayOff ==
    /\ mainpc = "off"
    /\ has = [m \in Prerequisites |-> FALSE]
    /\ request = ""
    /\ exitcode = NoExit
    /\ log = <<>>
    /\ yas = NoYasara
    /\ svc = NoService
    /\ srv = "none"
    /\ thr = "none"
    /\ cl = [c \in Clients |-> NoClient]
    /\ seen = NoSeen
    /\ sbuf = <<>>
    /\ sink = <<>>

OpenOff ==
    /\ opc = "off"
    /\ oport = 0
    /\ otop = 0
    /\ ocom = NoCom

\* ------------------------------------------------------------------------
\* Initial state: the satellite process before yasara_kernel is imported
\* ------------------------------------------------------------------------
Init ==
    /\ pc = "start"
    /\ com = NoCom
    /\ port = 0
    /\ occupied \in SUBSET BusyPorts
    /\ out = <<>>
    /\ conn = "none"
    /\ backlog = 0
    /\ accepted = 0
    /\ wire = <<>>
    /\ data = <<>>
    /\ hdr = NoHdr
    /\ got = 0
    /\ eof = FALSE
    /\ rvstat = "none"
    /\ cur = NoCall
    /\ steps = <<>>
    /\ ret = NoRet
    /\ ncalls = 0
    /\ created = 0
    /\ answered = 0
    /\ stalled = FALSE
    /\ relaycom = "unset"
    /\ cwd = "/"
    /\ glob = NoGlobals
    /\ sent = <<>>
    /\ FrameOff
    /\ RelayOff
    /\ OpenOff

\* ------------------------------------------------------------------------
\* Module initialisation of yasara_kernel
\* ------------------------------------------------------------------------
\* ComFromRelay ignoring the relay: com = None
ComFromRelay_None(rc) == NoCom

\* com = std_relay_service.root.get_com(): None, or a reference to the
\* communicator the plugin process already holds (connected to the host)
ComFromRelay(rc) ==
    IF rc = "None" THEN NoCom
    ELSE [exists |-> TRUE, port |-> IPPORT_USERRESERVED, sock |-> 1]

Startup ==
    /\ pc = "start"
    /\ \E rc \in {"None", "communicator"}, w \in WorkDirs :
          /\ relaycom' = rc
          /\ glob' = GlobalsFromRelay(RelayRoot(rc, w))
          /\ com' = ComFromRelay(rc)
          /\ conn' = IF rc = "None" THEN "none" ELSE "up"
          /\ accepted' = IF rc = "None" THEN 0 ELSE 1
          /\ occupied' = IF rc = "None" THEN occupied
                         ELSE occupied \cup {IPPORT_USERRESERVED}
    /\ cwd' = glob'.workdir
    /\ pc' = "idle"
    /\ UNCHANGED <<port, out, backlog, wire, data, hdr, got, eof, rvstat, cur,
                   steps, ret, ncalls, created, answered, stalled,
                   sent, framevars, relayvars, openvars>>

\* rpyc.connect raised ConnectionRefusedError: except ConnectionRefusedError: pass
StartupRefused ==
    /\ pc = "start"
    /\ relaycom' = "refused"
    /\ pc' = "idle"
    /\ UNCHANGED <<com, port, occupied, out, conn, backlog, accepted, wire, data,
                   hdr, got, eof, rvstat, cur, steps, ret, ncalls, created,
                   answered, stalled, cwd, glob, sent, framevars, relayvars, openvars>>

\* ------------------------------------------------------------------------
\* runretval(command, retvalused)
\* ------------------------------------------------------------------------
\* GlobalsBound with the globals bound whether or not the relay was reached
GlobalsBound_Always(rc) == TRUE

\* std_relay_service and com are bound by the try block of the module
\* initialisation only, which binds neither when the connection is refused
GlobalsBound(rc) == rc # "refused"

\* the first global runretval reads
FirstGlobal(retvalused) == IF retvalused THEN "com" ELSE "std_relay_service"

\* Path without the com is None test: a new communicator for every result
Path_AlwaysNew(retvalused, c) ==
    IF ~retvalused THEN "exec" ELSE "new"

\* the branch runretval takes
Path(retvalused, c) ==
    IF ~retvalused THEN "exec"
    ELSE IF ~c.exists THEN "new" ELSE "reuse"

FirstPc(path) ==
    CASE path = "unbound" -> "idle"
      [] path = "exec" -> "write"
      [] path = "new" -> "bind"
      [] path = "reuse" -> "write"

\* RequestLine sending the port with every result-bearing command
RequestLine_AlwaysPort(path, c, command) ==
    CASE path = "exec" -> ExecLine(command)
      [] path = "new" -> ExecRVPortLine(c.port, command)
      [] path = "reuse" -> ExecRVPortLine(c.port, command)

\* the line runretval writes through stdout_relay
RequestLine(path, c, command) ==
    CASE path = "exec" -> ExecLine(command)
      [] path = "new" -> ExecRVPortLine(c.port, command)
      [] path = "reuse" -> ExecRVLine(command)

\* where the caller of __init__ continues
AfterListen(path) == IF path = "new" THEN "write" ELSE "idle"

\* AfterWrite returning without receivemessage on the reuse branch
AfterWrite_NoWait(path) ==
    CASE path = "exec" -> "idle"
      [] path = "new" -> "accept"
      [] path = "reuse" -> "idle"

\* where runretval continues after the write
AfterWrite(path) ==
    CASE path = "exec" -> "idle"
      [] path = "new" -> "accept"
      [] path = "reuse" -> "recvhdr"

\* AfterAccept returning to the caller without waiting for the response
AfterAccept_NoReceive(path) == "idle"

\* where the caller of accept continues
AfterAccept(path) == IF path = "new" THEN "recvhdr" ELSE "idle"

\* runretval(command, retvalused) entered from the function fn of the module
\* ("" when it is called directly)
Dispatch(fn, command, retvalused) ==
    LET path == IF GlobalsBound(relaycom) THEN Path(retvalused, com)
                ELSE "unbound"
    IN  /\ cur' = [cmd |-> command, rv |-> retvalused, path |-> path,
                   expected |-> RESULT, fn |-> fn]
        /\ pc' = FirstPc(path)
        /\ port' = IF path = "new" THEN IPPORT_USERRESERVED ELSE port
        /\ ret' = IF path = "unbound" THEN NameError(FirstGlobal(retvalused))
                   ELSE NoRet

runretval ==
    /\ pc = "idle"
    /\ ncalls < MaxCalls
    /\ \E command \in Commands, retvalused \in BOOLEAN :
          Dispatch("", command, retvalused)
    /\ ncalls' = ncalls + 1
    /\ steps' = <<>>
    /\ eof' = FALSE
    /\ UNCHANGED <<com, occupied, out, conn, backlog, accepted, wire, data, hdr,
                   got, rvstat, created, answered, stalled, relaycom, cwd,
                   glob, sent, framevars, relayvars, openvars>>

\* one turn of the bind loop of __init__
bind ==
    /\ pc = "bind"
    /\ IF port \in occupied
          THEN /\ port' = NextCandidate(port)
               /\ steps' = Append(steps, Step("bindfail", port))
               /\ UNCHANGED <<pc, occupied>>
          ELSE /\ occupied' = occupied \cup {port}
               /\ steps' = Append(steps, Step("bind", port))
               /\ pc' = "listen"
               /\ UNCHANGED port
    /\ UNCHANGED <<com, out, conn, backlog, accepted, wire, data, hdr, got, eof,
                   rvstat, cur, ret, ncalls, created, answered, stalled,
                   relaycom, cwd,
                   glob, sent, framevars, relayvars, openvars>>

\* self.srvsock.listen(1) and the rest of __init__; com = yasara_communicator()
listen ==
    /\ pc = "listen"
    /\ com' = NewCommunicator(port)
    /\ created' = created + 1
    /\ steps' = Append(steps, Step("listen", port))
    /\ pc' = AfterListen(cur.path)
    /\ ret' = IF AfterListen(cur.path) = "idle" THEN ReturnNone ELSE ret
    /\ UNCHANGED <<port, occupied, out, conn, backlog, accepted, wire, data, hdr,
                   got, eof, rvstat, cur, ncalls, answered, stalled, relaycom,
                   cwd,
                   glob, sent, framevars, relayvars, openvars>>

\* receivemessage starts with nothing received
EnterReceiveMessage(nextpc) ==
    IF nextpc = "recvhdr"
    THEN data' = <<>> /\ hdr' = NoHdr /\ got' = 0
    ELSE UNCHANGED <<data, hdr, got>>

\* the state of the latest result-bearing dispatch once the dispatch ends
Ended(outcome) ==
    IF cur.rv THEN (IF outcome.tag = "return" THEN "returned" ELSE "raised")
    ELSE rvstat

\* std_relay_service.root.stdout_relay(line)
WriteRequest ==
    /\ pc = "write"
    /\ LET line == RequestLine(cur.path, com, cur.cmd)
       IN  /\ out' = Append(out, line)
           /\ steps' = Append(steps, Step("write", Len(out) + 1))
           /\ rvstat' = IF IsRVLine(line) THEN "running" ELSE rvstat
    /\ pc' = AfterWrite(cur.path)
    /\ ret' = IF AfterWrite(cur.path) = "idle" THEN ReturnNone ELSE ret
    /\ EnterReceiveMessage(AfterWrite(cur.path))
    /\ UNCHANGED <<com, port, occupied, conn, backlog, accepted, wire, eof, cur,
                   ncalls, created, answered, stalled, relaycom, cwd,
                   glob, sent, framevars, relayvars, openvars>>

\* com.accept()
accept ==
    /\ pc = "accept"
    /\ IF AcceptRefused(com.sock)
          THEN /\ ret' = AlreadyConnected
               /\ pc' = "idle"
               /\ rvstat' = Ended(AlreadyConnected)
               /\ UNCHANGED <<com, backlog, accepted, steps, data, hdr, got>>
          ELSE /\ backlog > 0
               /\ backlog' = backlog - 1
               /\ accepted' = accepted + 1
               /\ com' = [com EXCEPT !.sock = accepted + 1]
               /\ steps' = Append(steps, Step("accept", com.port))
               /\ pc' = AfterAccept(cur.path)
               /\ ret' = IF AfterAccept(cur.path) = "idle" THEN ReturnNone ELSE ret
               /\ EnterReceiveMessage(AfterAccept(cur.path))
               /\ UNCHANGED rvstat
    /\ UNCHANGED <<port, occupied, out, conn, wire, eof, cur, ncalls, created,
                   answered, stalled, relaycom, cwd,
                   glob, sent, framevars, relayvars, openvars>>

\* PayloadSize leaving the payload of an ERROR message unread
PayloadSize_ErrorSkipped(h) == IF h.type = ERROR THEN 0 ELSE h.size

\* data = self.receive(datasize): the bytes receivemessage reads after the header
PayloadSize(h) == h.size

\* AfterReceiveMessage sending the request again when receiving failed
AfterReceiveMessage_Retry(outcome) ==
    IF outcome.tag = "raise" THEN "write" ELSE "idle"

\* return com.receivemessage(com.RESULT): whatever receivemessage returns
\* or raises ends the call
AfterReceiveMessage(outcome) == "idle"

\* RecvOutcomes reading from the connection waiting in the listen queue when
\* no connection has been accepted
RecvOutcomes_Unconnected(n) ==
    IF Len(wire) > 0
        THEN {[exc |-> FALSE, chunk |-> SubSeq(wire, 1, k)] :
                 k \in 1..(IF n < Len(wire) THEN n ELSE Len(wire))}
    ELSE IF conn = "closed"
        THEN {[exc |-> FALSE, chunk |-> <<>>], [exc |-> TRUE, chunk |-> <<>>]}
    ELSE {}

\* what self.sock.recv(n) can produce now: a chunk of 1..n bytes; the empty
\* chunk or an exception once the peer has closed; an exception without socket
RecvOutcomes(n) ==
    IF com.sock = NoSock THEN {[exc |-> TRUE, chunk |-> <<>>]}
    ELSE IF com.sock # 1 THEN {}
    ELSE IF Len(wire) > 0
        THEN {[exc |-> FALSE, chunk |-> SubSeq(wire, 1, k)] :
                 k \in 1..(IF n < Len(wire) THEN n ELSE Len(wire))}
    ELSE IF conn = "closed"
        THEN {[exc |-> FALSE, chunk |-> <<>>], [exc |-> TRUE, chunk |-> <<>>]}
    ELSE {}

\* receive(size) called by receivemessage: one turn of its loop, and what
\* receivemessage does once it returns
receive ==
    /\ pc \in {"recvhdr", "recvpay"}
    /\ LET size == IF pc = "recvhdr" THEN HEADER_SIZE ELSE PayloadSize(hdr)
       IN \E o \in RecvOutcomes(RecvSize(data, size)) :
            LET r == IF o.exc THEN [st |-> "raise", data |-> <<>>]
                     ELSE ReceiveStep(data, size, o.chunk)
                n == Len(o.chunk)
                fin == CASE r.st = "raise" -> ConnectionBroken
                         [] r.st = "more" -> NoRet
                         [] r.st = "done" /\ pc = "recvhdr" ->
                              IF Len(r.data) # HEADER_SIZE THEN StructError
                              ELSE IF PayloadSize(UnpackHeader(r.data)) > 0 THEN NoRet
                              ELSE receivemessage(UnpackHeader(r.data).type, <<>>,
                                                 cur.expected)
                         [] r.st = "done" /\ pc = "recvpay" ->
                              receivemessage(hdr.type, r.data, cur.expected)
            IN  /\ wire' = SubSeq(wire, n + 1, Len(wire))
                /\ got' = got + n
                /\ eof' = (eof \/ n = 0)
                /\ steps' = IF pc = "recvhdr" /\ got = 0
                             THEN Append(steps, Step("receivemessage", cur.expected))
                             ELSE steps
                /\ hdr' = IF r.st = "done" /\ pc = "recvhdr" /\ Len(r.data) = HEADER_SIZE
                           THEN UnpackHeader(r.data) ELSE hdr
                /\ data' = IF r.st = "done" /\ pc = "recvhdr" THEN <<>>
                            ELSE IF r.st = "raise" THEN data ELSE r.data
                /\ IF fin = NoRet
                      THEN /\ pc' = IF r.st = "done" THEN "recvpay" ELSE pc
                           /\ UNCHANGED <<ret, rvstat>>
                      ELSE /\ pc' = AfterReceiveMessage(fin)
                           /\ ret' = fin
                           /\ rvstat' = Ended(fin)
    /\ UNCHANGED <<com, port, occupied, out, conn, backlog, accepted, cur, ncalls,
                   created, answered, stalled, relaycom, cwd,
                   glob, sent, framevars, relayvars, openvars>>

\* KeyboardInterrupt while blocked in accept or recv
Interrupt ==
    /\ \/ pc = "accept" /\ backlog = 0
       \/ pc \in {"recvhdr", "recvpay"} /\ wire = <<>>
    /\ ret' = KeyboardInterrupt
    /\ pc' = "idle"
    /\ rvstat' = Ended(KeyboardInterrupt)
    /\ UNCHANGED <<com, port, occupied, out, conn, backlog, accepted, wire, data,
                   hdr, got, eof, cur, steps, ncalls, created, answered, stalled,
                   relaycom, cwd,
                   glob, sent, framevars, relayvars, openvars>>

\* ------------------------------------------------------------------------
\* The host
\* ------------------------------------------------------------------------
\* the host connects to the port a request line advertises
HostConnect ==
    /\ conn = "none"
    /\ com.exists
    /\ \E i \in 1..Len(out) :
          out[i].prefix = "ExecRV%d: " /\ out[i].port = com.port
    /\ conn' = "up"
    /\ backlog' = backlog + 1
    /\ UNCHANGED <<pc, com, port, occupied, out, accepted, wire, data, hdr, got,
                   eof, rvstat, cur, steps, ret, ncalls, created, answered,
                   stalled, relaycom, cwd,
                   glob, sent, framevars, relayvars, openvars>>

\* where a host that stops in the middle of a message stops: inside the
\* header, between header and payload, inside the payload, or not at all
CutPoints(bytes) == {HEADER_SIZE \div 2, HEADER_SIZE, HEADER_SIZE + 2, Len(bytes)}

\* the host writes a framed message, or the beginning of one, to its socket
SendMessage ==
    /\ conn = "up"
    /\ ~stalled
    /\ \E m \in HostMessages :
          LET bytes == Encode(m.kind, m.payload)
          IN \E k \in CutPoints(bytes) :
                /\ wire' = wire \o SubSeq(bytes, 1, k)
                /\ stalled' = (k < Len(bytes))
    /\ answered' = answered + 1

\* the host answers the oldest unanswered result-bearing line
HostSend ==
    /\ answered < CountRV(out)
    /\ SendMessage
    /\ UNCHANGED <<pc, com, port, occupied, out, conn, backlog, accepted, data,
                   hdr, got, eof, rvstat, cur, steps, ret, ncalls, created,
                   relaycom, cwd,
                   glob, sent, framevars, relayvars, openvars>>

\* the host closes the connection
HostClose ==
    /\ conn = "up"
    /\ conn' = "closed"
    /\ UNCHANGED <<pc, com, port, occupied, out, backlog, accepted, wire, data,
                   hdr, got, eof, rvstat, cur, steps, ret, ncalls, created,
                   answered, stalled, relaycom, cwd,
                   glob, sent, framevars, relayvars, openvars>>

Next ==
    \/ Startup
    \/ StartupRefused
    \/ runretval
    \/ bind
    \/ listen
    \/ WriteRequest
    \/ accept
    \/ receive
    \/ Interrupt
    \/ HostConnect
    \/ HostSend
    \/ HostClose

Spec == Init /\ [][Next]_vars

\* ------------------------------------------------------------------------
\* The functions of the module that wrap a YASARA command: each builds its
\* command text and calls runretval
\* ------------------------------------------------------------------------
\* no port is occupied by another program
InitFree ==
    /\ Init
    /\ occupied = {}

ApiFunctions == {"Finish", "Wait", "StopLog", "SelectAtom"}

\* command[:-1] as the function builds it: Finish() is CountObj("all"),
\* Wait(1), StopLog(), SelectAtom("all")
CommandOf(fn) ==
    CASE fn = "Finish" -> "CountObj all"
      [] fn = "Wait" -> "Wait 1"
      [] fn = "StopLog" -> "StopLog"
      [] fn = "SelectAtom" -> "SelectAtom all"

\* RetvalUsedBy with Wait leaving the result to the caller
RetvalUsedBy_WaitNoResult(fn) == fn \in {"Finish", "StopLog"}

\* the second argument the function passes to runretval
RetvalUsedBy(fn) ==
    CASE fn = "Finish" -> TRUE
      [] fn = "Wait" -> TRUE
      [] fn = "StopLog" -> TRUE
      [] fn = "SelectAtom" -> FALSE

\* a call of one of the functions
ApiCall ==
    /\ pc = "idle"
    /\ ncalls < MaxCalls
    /\ \E fn \in ApiFunctions :
          Dispatch(fn, CommandOf(fn), RetvalUsedBy(fn))
    /\ ncalls' = ncalls + 1
    /\ steps' = <<>>
    /\ eof' = FALSE
    /\ UNCHANGED <<com, occupied, out, conn, backlog, accepted, wire, data, hdr,
                   got, rvstat, created, answered, stalled, relaycom, cwd,
                   glob, sent, framevars, relayvars, openvars>>

NextSync ==
    \/ Startup
    \/ StartupRefused
    \/ ApiCall
    \/ bind
    \/ listen
    \/ WriteRequest
    \/ accept
    \/ receive
    \/ Interrupt
    \/ HostConnect
    \/ HostSend
    \/ HostClose

SpecSync == InitFree /\ [][NextSync]_vars

\* ------------------------------------------------------------------------
\* The satellite process and its host, with every send of the host recorded
\* ------------------------------------------------------------------------
\* HostSend, recorded in sent
HostAnswer ==
    /\ answered < CountRV(out)
    /\ SendMessage
    /\ sent' = Append(sent, SubSeq(wire', Len(wire) + 1, Len(wire')))
    /\ UNCHANGED <<pc, com, port, occupied, out, conn, backlog, accepted, data,
                   hdr, got, eof, rvstat, cur, steps, ret, ncalls, created,
                   relaycom, cwd,
                   glob, framevars, relayvars, openvars>>

NextAlign ==
    \/ Startup
    \/ StartupRefused
    \/ runretval
    \/ bind
    \/ listen
    \/ WriteRequest
    \/ accept
    \/ receive
    \/ Interrupt
    \/ HostConnect
    \/ HostAnswer
    \/ HostClose

SpecAlign == InitFree /\ [][NextAlign]_vars

\* ------------------------------------------------------------------------
\* The communicator driven directly: a client of the class constructs it and
\* calls accept and receivemessage; peers connect to the listening socket
\* ------------------------------------------------------------------------
InitCom ==
    /\ pc = "idle"
    /\ com = NoCom
    /\ port = 0
    /\ occupied \in SUBSET BusyPorts
    /\ out = <<>>
    /\ conn = "none"
    /\ backlog = 0
    /\ accepted = 0
    /\ wire = <<>>
    /\ data = <<>>
    /\ hdr = NoHdr
    /\ got = 0
    /\ eof = FALSE
    /\ rvstat = "none"
    /\ cur = NoCall
    /\ steps = <<>>
    /\ ret = NoRet
    /\ ncalls = 0
    /\ created = 0
    /\ answered = 0
    /\ stalled = FALSE
    /\ relaycom = "None"
    /\ cwd = "/"
    /\ glob = NoGlobals
    /\ sent = <<>>
    /\ FrameOff
    /\ RelayOff
    /\ OpenOff

\* yasara_communicator()
ComConstruct ==
    /\ pc = "idle"
    /\ ~com.exists
    /\ cur' = [NoCall EXCEPT !.path = "construct"]
    /\ port' = IPPORT_USERRESERVED
    /\ steps' = <<>>
    /\ ret' = NoRet
    /\ pc' = "bind"
    /\ UNCHANGED <<com, occupied, out, conn, backlog, accepted, wire, data, hdr,
                   got, eof, rvstat, ncalls, created, answered, stalled,
                   relaycom, cwd,
                   glob, sent, framevars, relayvars, openvars>>

\* com.accept() called by the client
ComAccept ==
    /\ pc = "idle"
    /\ com.exists
    /\ ncalls < MaxCalls
    /\ ncalls' = ncalls + 1
    /\ cur' = [NoCall EXCEPT !.path = "accept"]
    /\ steps' = <<>>
    /\ ret' = NoRet
    /\ pc' = "accept"
    /\ UNCHANGED <<com, port, occupied, out, conn, backlog, accepted, wire, data,
                   hdr, got, eof, rvstat, created, answered, stalled, relaycom,
                   cwd,
                   glob, sent, framevars, relayvars, openvars>>

\* com.receivemessage(expectedtype) called by the client
ComReceiveMessage ==
    /\ pc = "idle"
    /\ com.exists
    /\ ncalls < MaxCalls
    /\ ncalls' = ncalls + 1
    /\ \E e \in {NoExpected, RESULT, ERROR} :
          cur' = [NoCall EXCEPT !.path = "receivemessage", !.expected = e]
    /\ steps' = <<>>
    /\ ret' = NoRet
    /\ eof' = FALSE
    /\ EnterReceiveMessage("recvhdr")
    /\ pc' = "recvhdr"
    /\ UNCHANGED <<com, port, occupied, out, conn, backlog, accepted, wire,
                   rvstat, created, answered, stalled, relaycom, cwd,
                   glob, sent, framevars, relayvars, openvars>>

\* a peer connects to the listening socket
PeerConnect ==
    /\ com.exists
    /\ backlog = 0
    /\ accepted + backlog < MaxPeers
    /\ backlog' = 1
    /\ conn' = IF conn = "none" THEN "up" ELSE conn
    /\ UNCHANGED <<pc, com, port, occupied, out, accepted, wire, data, hdr, got,
                   eof, rvstat, cur, steps, ret, ncalls, created, answered,
                   stalled, relaycom, cwd,
                   glob, sent, framevars, relayvars, openvars>>

\* the first peer sends a framed message
PeerSend ==
    /\ answered < MaxCalls
    /\ SendMessage
    /\ sent' = Append(sent, SubSeq(wire', Len(wire) + 1, Len(wire')))
    /\ UNCHANGED <<pc, com, port, occupied, out, conn, backlog, accepted, data,
                   hdr, got, eof, rvstat, cur, steps, ret, ncalls, created,
                   relaycom, cwd,
                   glob, framevars, relayvars, openvars>>

NextCom ==
    \/ ComConstruct
    \/ bind
    \/ listen
    \/ ComAccept
    \/ accept
    \/ ComReceiveMessage
    \/ receive
    \/ PeerConnect
    \/ PeerSend
    \/ HostClose

SpecCom == InitCom /\ [][NextCom]_vars

\* ------------------------------------------------------------------------
\* The header round trip: a sender frames a message of a given kind and
\* payload length, receivemessage reads it with receive
\* ------------------------------------------------------------------------
\* the payload lengths packed: the short ones, whose payload is sent too,
\* and lengths that need the second and third byte of the size field
FrameLens == (0..MaxLen) \cup {255, 256, 65535, 65536}

\* payload byte i of a message
PayloadByte(i) == i % 256

\* what the sender puts on the wire: the header, and the payload of a short message
FrameBytes(kind, n) ==
    PackHeader(kind, n) \o [i \in 1..(IF n <= MaxLen THEN n ELSE 0) |-> PayloadByte(i)]

\* the satellite process and its communicator are not part of this run
ComOff ==
    /\ pc = "off"
    /\ com = NoCom
    /\ port = 0
    /\ occupied = {}
    /\ out = <<>>
    /\ conn = "none"
    /\ backlog = 0
    /\ accepted = 0
    /\ wire = <<>>
    /\ data = <<>>
    /\ hdr = NoHdr
    /\ got = 0
    /\ eof = FALSE
    /\ rvstat = "none"
    /\ cur = NoCall
    /\ steps = <<>>
    /\ ret = NoRet
    /\ ncalls = 0
    /\ created = 0
    /\ answered = 0
    /\ stalled = FALSE
    /\ relaycom = "None"
    /\ cwd = "/"
    /\ glob = NoGlobals
    /\ sent = <<>>

InitFrame ==
    /\ fkind \in {RESULT, ERROR}
    /\ flen \in FrameLens
    /\ fwire = <<>>
    /\ fdata = <<>>
    /\ fhdr = NoHdr
    /\ fgot = 0
    /\ fpay = 0
    /\ fpc = "send"
    /\ ComOff
    /\ RelayOff
    /\ OpenOff

\* the sender writes the framed message to its socket
FrameSend ==
    /\ fpc = "send"
    /\ fwire' = FrameBytes(fkind, flen)
    /\ fpc' = "recvhdr"
    /\ UNCHANGED <<fkind, flen, fdata, fhdr, fgot, fpay, comvars, relayvars, openvars>>

\* receive(8) of receivemessage: one turn of its loop, then struct.unpack
FrameReceiveHeader ==
    /\ fpc = "recvhdr"
    /\ \E k \in 1..RecvSize(fdata, HEADER_SIZE) :
          /\ k <= Len(fwire)
          /\ LET r == ReceiveStep(fdata, HEADER_SIZE, SubSeq(fwire, 1, k))
             IN  /\ fwire' = SubSeq(fwire, k + 1, Len(fwire))
                 /\ fgot' = fgot + k
                 /\ IF r.st = "done"
                       THEN /\ fhdr' = UnpackHeader(r.data)
                            /\ fdata' = <<>>
                            /\ fpc' = IF UnpackHeader(r.data).size > 0
                                      THEN "recvpay" ELSE "done"
                       ELSE /\ fdata' = r.data
                            /\ UNCHANGED <<fhdr, fpc>>
    /\ UNCHANGED <<fkind, flen, fpay, comvars, relayvars, openvars>>

\* receive(datasize) of receivemessage: one turn of its loop
FrameReceivePayload ==
    /\ fpc = "recvpay"
    /\ \E k \in 1..RecvSize(fdata, fhdr.size) :
          /\ k <= Len(fwire)
          /\ LET r == ReceiveStep(fdata, fhdr.size, SubSeq(fwire, 1, k))
             IN  /\ fwire' = SubSeq(fwire, k + 1, Len(fwire))
                 /\ fpay' = fpay + k
                 /\ fdata' = r.data
                 /\ fpc' = IF r.st = "done" THEN "done" ELSE fpc
    /\ UNCHANGED <<fkind, flen, fhdr, fgot, comvars, relayvars, openvars>>

NextFrame ==
    \/ FrameSend
    \/ FrameReceiveHeader
    \/ FrameReceivePayload

SpecFrame == InitFrame /\ [][NextFrame]_vars

\* ------------------------------------------------------------------------
\* The bind loop of yasara_communicator.__init__ followed through the whole
\* port range: the ports from the starting port up to otop are occupied
\* ------------------------------------------------------------------------
\* where the occupied ports can end: below the starting port (none is
\* occupied), within the first NumBusy ports, at the port before the last
\* valid one, and at the last valid one (no port is free)
OccupiedTops ==
    ((IPPORT_USERRESERVED - 1) .. (IPPORT_USERRESERVED + NumBusy - 1))
        \cup {MAXPORT - 1, MAXPORT}

InitOpen ==
    /\ opc = "init"
    /\ oport = 0
    /\ otop \in OccupiedTops
    /\ ocom = NoCom
    /\ ComOff
    /\ FrameOff
    /\ RelayOff

\* BindOutcome with the port range tested before bind is tried
BindOutcome_RangeChecked(p, top) ==
    IF p > MAXPORT THEN "raise"
    ELSE IF p <= top THEN "except" ELSE "break"

\* self.srvsock.bind(("", port)): break when it returns; the bare except
\* takes whatever it raises, for an occupied port and for a port out of range
BindOutcome(p, top) ==
    IF p > MAXPORT \/ p <= top THEN "except" ELSE "break"

\* port = socket.IPPORT_USERRESERVED
OpenEnter ==
    /\ opc = "init"
    /\ oport' = IPPORT_USERRESERVED
    /\ opc' = "bind"
    /\ UNCHANGED <<otop, ocom, comvars, framevars, relayvars>>

\* one turn of while (1): try bind, break / except: port += 1
OpenBind ==
    /\ opc = "bind"
    /\ oport < MAXPORT + MaxBeyond
    /\ LET o == BindOutcome(oport, otop)
       IN  /\ oport' = IF o = "except" THEN NextCandidate(oport) ELSE oport
           /\ opc' = CASE o = "except" -> "bind"
                       [] o = "break" -> "listen"
                       [] o = "raise" -> "raised"
    /\ UNCHANGED <<otop, ocom, comvars, framevars, relayvars>>

\* self.srvsock.listen(1); self.sock = None; self.port = port
OpenListen ==
    /\ opc = "listen"
    /\ ocom' = NewCommunicator(oport)
    /\ opc' = "done"
    /\ UNCHANGED <<oport, otop, comvars, framevars, relayvars>>

NextOpen ==
    \/ OpenEnter
    \/ OpenBind
    \/ OpenListen

SpecOpen == InitOpen /\ [][NextOpen]_vars

\* __init__ is sequential code: a step it can take it does take
SpecOpenLive == SpecOpen /\ WF_vars(OpenEnter) /\ WF_vars(OpenBind) /\ WF_vars(OpenListen)

\* ------------------------------------------------------------------------
\* The plugin process: yapycon_launch_plugin, the relay service, its server
\* thread and the clients of the relay
\* ------------------------------------------------------------------------
\* the yasara module of a plugin run by YASARA
YasaraModule ==
    [module |-> TRUE,
     attrs |-> [plugin |-> "plugin", request |-> "YaPyCon", opsys |-> "Linux",
                version |-> "20.12.24", serialnumber |-> "1234",
                stage |-> "View", owner |-> "yasara owner",
                permissions |-> "user", workdir |-> "/yasara",
                selection |-> "selection", com |-> "None"]]

\* a yasara module that lacks attributes of the session
PartialYasara ==
    [YasaraModule EXCEPT !.attrs.selection = "missing", !.attrs.com = "missing"]

\* the connection file yapycon_launch_plugin passes as connection_info
ConnectionFile == "kernel.json"

\* the requests YASARA runs the plugin with
Requests == {"CheckIfDisabled", "YaPyCon"}

InitRelay ==
    /\ mainpc = "main"
    /\ has \in [Prerequisites -> BOOLEAN]
    /\ request \in Requests
    /\ exitcode = NoExit
    /\ log = <<>>
    /\ yas \in {YasaraModule, PartialYasara, NoYasara}
    /\ svc = NoService
    /\ srv = "none"
    /\ thr = "none"
    /\ cl = [c \in Clients |-> NoClient]
    /\ seen = NoSeen
    /\ sbuf = <<>>
    /\ sink = <<>>
    /\ ComOff
    /\ FrameOff
    /\ OpenOff

\* yapycon_plugin_check_if_disabled answering 1 when any prerequisite is missing
CheckIfDisabled_AnyMissing(h) ==
    IF ~(h.ipython /\ h.rpyc /\ h.qtconsole) THEN 1 ELSE 0

\* yapycon_plugin_check_if_disabled:
\* if not (HAS_IPYTHON or HAS_RPYC or HAS_QTCONSOLE): return 1; return 0
CheckIfDisabled(h) ==
    IF ~(h.ipython \/ h.rpyc \/ h.qtconsole) THEN 1 ELSE 0

\* if __name__ == "__main__": the test of yasara.request
Main ==
    /\ mainpc = "main"
    /\ mainpc' = IF ~yas.module THEN "crashed"
                 ELSE IF request = "CheckIfDisabled" THEN "check"
                 ELSE "app"
    /\ UNCHANGED <<yas, svc, srv, thr, cl, sbuf, sink, seen, plugvars, log,
                   comvars, framevars, openvars>>

\* yasara.plugin.exitcode = yapycon_plugin_check_if_disabled()
PluginCheck ==
    /\ mainpc = "check"
    /\ exitcode' = CheckIfDisabled(has)
    /\ mainpc' = "end"
    /\ UNCHANGED <<yas, svc, srv, thr, cl, sbuf, sink, seen, has, request, log,
                   comvars, framevars, openvars>>

\* the module a step of yapycon_launch_plugin takes its names from
Needs(step) ==
    CASE step = "app" -> "ipython"
      [] step = "server" -> "rpyc"
      [] OTHER -> "qtconsole"

\* a name of a module that could not be imported is undefined: NameError
Crash ==
    /\ mainpc \in {"app", "kernel", "channels", "widget", "connfile", "server"}
    /\ ~has[Needs(mainpc)]
    /\ mainpc' = "crashed"
    /\ UNCHANGED <<yas, svc, srv, thr, cl, sbuf, sink, seen, plugvars, log,
                   comvars, framevars, openvars>>

\* app = guisupport.get_app_qt4()
GetApp ==
    /\ mainpc = "app"
    /\ has[Needs("app")]
    /\ mainpc' = "kernel"
    /\ UNCHANGED <<yas, svc, srv, thr, cl, sbuf, sink, seen, plugvars, log,
                   comvars, framevars, openvars>>

\* BeforeRelay writing the connection file after the relay is up
BeforeRelay_FileLater ==
    [kernel |-> [op |-> "start_kernel", next |-> "channels"],
     channels |-> [op |-> "start_channels", next |-> "widget"],
     widget |-> [op |-> "control.show", next |-> "launch"],
     connfile |-> [op |-> "write_connection_file", next |-> "launch"]]

\* what the launch does before the relay, in the order of the source
BeforeRelay ==
    [kernel |-> [op |-> "start_kernel", next |-> "channels"],
     channels |-> [op |-> "start_channels", next |-> "widget"],
     widget |-> [op |-> "control.show", next |-> "connfile"],
     connfile |-> [op |-> "write_connection_file", next |-> "launch"]]

\* kernel_manager.start_kernel(); kernel_client.start_channels();
\* control.show(); kernel_manager.write_connection_file(): one at a time
LaunchStep ==
    /\ mainpc \in DOMAIN BeforeRelay
    /\ has[Needs(mainpc)]
    /\ log' = Append(log, BeforeRelay[mainpc].op)
    /\ mainpc' = BeforeRelay[mainpc].next
    /\ UNCHANGED <<yas, svc, srv, thr, cl, sbuf, sink, seen, plugvars,
                   comvars, framevars, openvars>>

\* RpcServerThread.__init__: super().__init__()
ThreadInit ==
    /\ mainpc = "launch"
    /\ thr' = "created"
    /\ mainpc' = "service"
    /\ UNCHANGED <<yas, svc, srv, cl, sbuf, sink, seen, plugvars, log, comvars, framevars, openvars>>

\* FieldValue reading a missing attribute as None
FieldValue_Default(y, f) ==
    [ok |-> TRUE,
     val |-> IF y.module /\ y.attrs[f] # "missing" THEN y.attrs[f] ELSE "None"]

\* yasara.<f>: NameError without the module, AttributeError without the attribute
FieldValue(y, f) ==
    [ok |-> y.module /\ y.attrs[f] # "missing", val |-> y.attrs[f]]

\* the attribute the next assignment of __init__ reads, 0 after the last
NextField(fields) ==
    IF \A i \in 1..Len(FieldOrder) : fields[FieldOrder[i]] # "unset" THEN 0
    ELSE CHOOSE i \in 1..Len(FieldOrder) :
            /\ fields[FieldOrder[i]] = "unset"
            /\ \A j \in 1..(i - 1) : fields[FieldOrder[j]] # "unset"

\* YasaraContextRelayService.__init__, one assignment at a time
ServiceInit ==
    /\ mainpc = "service"
    /\ IF ~svc.stream
          THEN /\ svc' = [svc EXCEPT !.exists = TRUE, !.stream = TRUE]
               /\ UNCHANGED mainpc
       ELSE IF NextField(svc.fields) = 0
          THEN /\ svc' = [svc EXCEPT !.fields.connection_info = ConnectionFile]
               /\ mainpc' = "server"
       ELSE LET f == FieldOrder[NextField(svc.fields)]
                v == FieldValue(yas, f)
            IN  IF v.ok
                   THEN /\ svc' = [svc EXCEPT !.fields[f] = v.val]
                        /\ UNCHANGED mainpc
                   ELSE /\ mainpc' = "raised"
                        /\ UNCHANGED svc
    /\ UNCHANGED <<yas, srv, thr, cl, sbuf, sink, seen, plugvars, log, comvars, framevars, openvars>>

\* RpcServerThread.__init__: self._serv_object = ThreadedServer(service, ...)
ServerCreate ==
    /\ mainpc = "server"
    /\ has.rpyc
    /\ srv' = "created"
    /\ mainpc' = "start"
    /\ log' = Append(log, "RpcServerThread")
    /\ UNCHANGED <<yas, svc, thr, cl, sbuf, sink, seen, plugvars, comvars, framevars, openvars>>

\* rpc_serv.start()
ThreadStart ==
    /\ mainpc = "start"
    /\ thr' = "started"
    /\ mainpc' = "eventloop"
    /\ log' = Append(log, "rpc_serv.start")
    /\ UNCHANGED <<yas, svc, srv, cl, sbuf, sink, seen, plugvars, comvars, framevars, openvars>>

\* guisupport.start_event_loop_qt4(app) returns when the console is closed
EventLoopExit ==
    /\ mainpc = "eventloop"
    /\ mainpc' = "stop"
    /\ log' = Append(log, "start_event_loop_qt4")
    /\ UNCHANGED <<yas, svc, srv, thr, cl, sbuf, sink, seen, plugvars, comvars, framevars, openvars>>

\* CloseEffect of a close that leaves the server as it is
CloseEffect_Ignored(server) == server

\* self._serv_object.close(): a server that is serving stops serving, a
\* server that has not been started is closed before it starts
CloseEffect(server) ==
    IF server = "listening" THEN "closed"
    ELSE IF server = "created" THEN "dead"
    ELSE server

\* rpc_serv.stop_server()
StopServer ==
    /\ mainpc = "stop"
    /\ srv' = CloseEffect(srv)
    /\ mainpc' = "shutdown"
    /\ log' = Append(log, "stop_server")
    /\ UNCHANGED <<yas, svc, thr, cl, sbuf, sink, seen, plugvars, comvars, framevars, openvars>>

\* kernel_client.stop_channels(); kernel_manager.shutdown_kernel()
Shutdown ==
    /\ mainpc = "shutdown"
    /\ mainpc' = "end"
    /\ log' = log \o <<"stop_channels", "shutdown_kernel">>
    /\ UNCHANGED <<yas, svc, srv, thr, cl, sbuf, sink, seen, plugvars, comvars, framevars, openvars>>

\* RpcServerThread.run: self._serv_object.start(); on a server closed
\* before it started, start() either raises or blocks for good
ThreadRun ==
    /\ thr = "started"
    /\ \/ /\ srv = "created"
          /\ srv' = "listening"
          /\ thr' = "serving"
       \/ /\ srv = "dead"
          /\ thr' \in {"terminated", "stuck"}
          /\ UNCHANGED srv
    /\ UNCHANGED <<mainpc, yas, svc, cl, sbuf, sink, seen, plugvars, log, comvars, framevars, openvars>>

\* start() returns once the server is closed, run() ends
ServeReturn ==
    /\ thr = "serving"
    /\ srv = "closed"
    /\ thr' = "terminated"
    /\ UNCHANGED <<mainpc, yas, svc, srv, cl, sbuf, sink, seen, plugvars, log, comvars, framevars, openvars>>

\* the root of a connection: the instance the server was given
ConnectionRoot(service) == service.fields

\* rpyc.connect("localhost", 18861) of a satellite process
ClientConnect(c) ==
    /\ cl[c].st = "off"
    /\ srv = "listening"
    /\ cl' = [cl EXCEPT ![c].st = "idle", ![c].root = ConnectionRoot(svc)]
    /\ UNCHANGED <<mainpc, yas, svc, srv, thr, sbuf, sink, seen, plugvars, log, comvars, framevars, openvars>>

\* FieldOf with exposed_get_owner returning self._permissions
FieldOf_Swapped ==
    [get_plugin |-> "plugin", get_request_str |-> "request",
     get_opsys |-> "opsys", get_version |-> "version",
     get_serialnumber |-> "serialnumber", get_stage |-> "stage",
     get_owner |-> "permissions", get_permissions |-> "permissions",
     get_workdir |-> "workdir", get_selection |-> "selection",
     get_com |-> "com", get_connection_info |-> "connection_info"]

\* the field each exposed_get_* accessor returns
FieldOf ==
    [get_plugin |-> "plugin", get_request_str |-> "request",
     get_opsys |-> "opsys", get_version |-> "version",
     get_serialnumber |-> "serialnumber", get_stage |-> "stage",
     get_owner |-> "owner", get_permissions |-> "permissions",
     get_workdir |-> "workdir", get_selection |-> "selection",
     get_com |-> "com", get_connection_info |-> "connection_info"]

Accessors == DOMAIN FieldOf

\* a client calls an accessor
ClientGet(c) ==
    /\ cl[c].st = "idle"
    /\ \E a \in Accessors :
          seen' = [client |-> c, acc |-> a, val |-> cl[c].root[FieldOf[a]]]
    /\ UNCHANGED <<mainpc, yas, svc, srv, thr, cl, sbuf, sink, plugvars, log, comvars, framevars, openvars>>

\* the payload of the k-th stdout_relay call of client c: a command line
\* in two parts, the command and its newline
Piece(c, k, part) == [client |-> c, call |-> k, part |-> part]

\* the stdout_relay calls the clients in cs have made or are making
RECURSIVE RelaysStarted(_)
RelaysStarted(cs) ==
    IF cs = {} THEN 0
    ELSE LET c == CHOOSE x \in cs : TRUE
         IN  cl[c].n + (IF cl[c].st \in {"write", "flush"} THEN 1 ELSE 0)
                + RelaysStarted(cs \ {c})

\* exposed_stdout_relay: self._output_stream.write(payload); the stream is
\* shared by the threads of all connections and has no lock, so the two
\* parts may reach it in one step or in two
RelayWrite(c) ==
    /\ cl[c].st = "idle"
    /\ RelaysStarted(Clients) < MaxRelays
    /\ \/ /\ sbuf' = sbuf \o <<Piece(c, cl[c].n + 1, 1), Piece(c, cl[c].n + 1, 2)>>
          /\ cl' = [cl EXCEPT ![c].st = "flush"]
       \/ /\ sbuf' = Append(sbuf, Piece(c, cl[c].n + 1, 1))
          /\ cl' = [cl EXCEPT ![c].st = "write"]
    /\ UNCHANGED <<mainpc, yas, svc, srv, thr, sink, seen, plugvars, log, comvars, framevars, openvars>>

\* the rest of a write that reaches the stream in two steps
RelayWriteRest(c) ==
    /\ cl[c].st = "write"
    /\ sbuf' = Append(sbuf, Piece(c, cl[c].n + 1, 2))
    /\ cl' = [cl EXCEPT ![c].st = "flush"]
    /\ UNCHANGED <<mainpc, yas, svc, srv, thr, sink, seen, plugvars, log, comvars, framevars, openvars>>

\* Flush leaving the buffer as it is
Flush_None(buffered, delivered) == [sbuf |-> buffered, sink |-> delivered]

\* self._output_stream.flush()
Flush(buffered, delivered) == [sbuf |-> <<>>, sink |-> delivered \o buffered]

\* exposed_stdout_relay: self._output_stream.flush(), then the call returns
RelayFlush(c) ==
    /\ cl[c].st = "flush"
    /\ sbuf' = Flush(sbuf, sink).sbuf
    /\ sink' = Flush(sbuf, sink).sink
    /\ cl' = [cl EXCEPT ![c].st = "idle", ![c].n = cl[c].n + 1]
    /\ UNCHANGED <<mainpc, yas, svc, srv, thr, seen, plugvars, log, comvars, framevars, openvars>>

NextRelay ==
    \/ Main
    \/ PluginCheck
    \/ Crash
    \/ GetApp
    \/ LaunchStep
    \/ ThreadInit
    \/ ServiceInit
    \/ ServerCreate
    \/ ThreadStart
    \/ EventLoopExit
    \/ StopServer
    \/ Shutdown
    \/ ThreadRun
    \/ ServeReturn
    \/ \E c \in Clients : ClientConnect(c)
    \/ \E c \in Clients : ClientGet(c)
    \/ \E c \in Clients : RelayWrite(c)
    \/ \E c \in Clients : RelayWriteRest(c)
    \/ \E c \in Clients : RelayFlush(c)

SpecRelay == InitRelay /\ [][NextRelay]_vars

\* the server thread is a thread of its own: once start() can return, the
\* thread gets to run and returns
SpecRelayLive == SpecRelay /\ WF_vars(ServeReturn)

\* ------------------------------------------------------------------------
\* Properties
\* ------------------------------------------------------------------------
IsPrefix(a, b) == Len(a) <= Len(b) /\ a = SubSeq(b, 1, Len(a))

\* the operations of a dispatch, without the failed binds
Ops(st) ==
    LET kept == SelectSeq(st, LAMBDA x : x.op # "bindfail")
    IN  [i \in 1..Len(kept) |-> kept[i].op]

\* the bind attempts of a dispatch
Binds(st) == SelectSeq(st, LAMBDA x : x.op \in {"bindfail", "bind"})

CountOp(st, op) == Len(SelectSeq(st, LAMBDA x : x.op = op))

SameLine(l, m) ==
    /\ l.prefix = m.prefix
    /\ l.port = m.port
    /\ l.command = m.command
    /\ l.eol = m.eol

\* a dispatch (runretval) has been started
InDispatch == cur.path \in {"exec", "new", "reuse"}

\* the dispatch in progress or last ended is the first result-bearing one
FirstRV ==
    /\ InDispatch
    /\ cur.rv
    /\ \/ CountRV(out) = 0
       \/ CountRV(out) = 1 /\ CountOp(steps, "write") = 1

\* the receivemessage in progress or last ended has read a whole message
WholeMessage == hdr.set /\ got = HEADER_SIZE + hdr.size

\* the concatenation of a sequence of byte sequences
RECURSIVE Flatten(_)
Flatten(ss) == IF ss = <<>> THEN <<>> ELSE Head(ss) \o Flatten(Tail(ss))

\* every byte the peer has sent, and how many of them recv has returned
Stream == Flatten(sent)
Consumed == Len(Stream) - Len(wire)

\* where the i-th send of the peer begins in the stream
Offset(i) == Len(Flatten(SubSeq(sent, 1, i - 1)))

\* C1: a result-bearing request line is never written while the result of an
\* earlier result-bearing dispatch of the process is outstanding: when the
\* line of c2 is appended to the host input stream, c1 has either raised or
\* returned after reading its whole framed message (8 + size bytes).
C1_RequestAfterResult ==
    [][(/\ Len(out') = Len(out) + 1
        /\ IsRVLine(out'[Len(out')])
        /\ CountRV(out) > 0)
       => \/ rvstat = "raised"
          \/ rvstat = "returned" /\ WholeMessage]_vars

C1_Witness ==
    /\ Len(out) = 2
    /\ out[1].prefix = "ExecRV%d: "
    /\ out[2].prefix = "ExecRV: "
    /\ pc = "recvhdr"
    /\ rvstat = "running"

\* C2: a dispatch that reads a message of kind ERROR with payload
\* (code, text) raises RuntimeError("YASARA raised error %d: %s" % (code,
\* text)) and returns no value, on the new and on the reuse path.
C2_HostErrorRaised ==
    \A c \in ErrorCodes, t \in 1..Len(ErrorTexts) :
        (/\ InDispatch
         /\ cur.rv
         /\ pc = "idle"
         /\ WholeMessage
         /\ hdr.type = ERROR
         /\ data = DumpsError(c, ErrorTexts[t]))
        => /\ ret.tag = "raise"
           /\ ret.exc = "RuntimeError"
           /\ ret.fmt = "YASARA raised error %d: %s"
           /\ ret.args = <<c, ErrorTexts[t]>>
           /\ ret.val = <<>>
           /\ rvstat = "raised"

C2_Witness ==
    /\ cur.path = "reuse"
    /\ relaycom = "None"
    /\ pc = "idle"
    /\ WholeMessage
    /\ hdr.type = ERROR
    /\ ret.fmt = "YASARA raised error %d: %s"
    /\ ret.args = <<42, "bad selection">>

\* C3: a dispatch with retvalused false performs one operation, the write of
\* "Exec: " + command + "\n", returns None, and neither creates, accepts on
\* nor reads from an endpoint; com is left as it was.
C3_ExecOnlyWrites ==
    /\ [](InDispatch /\ ~cur.rv =>
            /\ pc \in {"write", "idle"}
            /\ pc = "write" => steps = <<>>
            /\ pc = "idle" =>
                 /\ Len(steps) = 1
                 /\ steps[1].op = "write"
                 /\ steps[1].arg \in 1..Len(out)
                 /\ SameLine(out[steps[1].arg],
                             [prefix |-> "Exec: ", port |-> 0,
                              command |-> cur.cmd, eol |-> "\n"])
                 /\ ret.tag = "None")
    /\ [][(cur'.path \in {"exec", "new", "reuse"} /\ ~cur'.rv) =>
            /\ com' = com
            /\ created' = created
            /\ accepted' = accepted
            /\ backlog' >= backlog
            /\ got' = got
            /\ Len(wire') >= Len(wire)]_vars

C3_Witness ==
    /\ InDispatch
    /\ ~cur.rv
    /\ pc = "idle"
    /\ com.exists
    /\ com.sock # NoSock
    /\ relaycom = "None"
    /\ ret.tag = "None"

\* C4: on the branch that finds no endpoint the operations are, in this
\* order: bind, listen, write of "ExecRV<port>: " + command with the bound
\* port, accept, receivemessage; a value returned is the payload read.
C4_NewPathOrder ==
    cur.path = "new" =>
        LET ops == Ops(steps)
            kept == SelectSeq(steps, LAMBDA x : x.op # "bindfail")
        IN  /\ IsPrefix(ops, <<"bind", "listen", "write", "accept", "receivemessage">>)
            /\ pc = "bind" => Len(ops) = 0
            /\ pc = "listen" => Len(ops) = 1
            /\ pc = "write" => Len(ops) = 2
            /\ pc = "accept" => Len(ops) = 3
            /\ pc \in {"recvhdr", "recvpay"} => Len(ops) \in {4, 5}
            /\ Len(ops) >= 2 => com.exists /\ com.port = kept[1].arg
            /\ Len(ops) >= 3 =>
                 /\ kept[3].arg \in 1..Len(out)
                 /\ SameLine(out[kept[3].arg],
                             [prefix |-> "ExecRV%d: ", port |-> kept[1].arg,
                              command |-> cur.cmd, eol |-> "\n"])
            /\ Len(ops) >= 4 => com.sock # NoSock
            /\ (pc = "idle" /\ ret.tag = "return") =>
                 /\ Len(ops) = 5
                 /\ WholeMessage
                 /\ \E v \in ResultValues : data = DumpsList(v) /\ ret.val = <<v>>

C4_Witness ==
    /\ cur.path = "new"
    /\ pc = "idle"
    /\ ret.tag = "return"
    /\ ret.val = <<7>>
    /\ com.port = IPPORT_USERRESERVED + 1
    /\ out[Len(out)].port = IPPORT_USERRESERVED + 1

\* C5: on the branch that finds an endpoint the operations are the write of
\* "ExecRV: " + command (no port) and one receivemessage; there is no bind
\* and no accept, and the endpoint and its connection stay as they were.
C5_ReusePath ==
    /\ [](cur.path = "reuse" =>
            /\ IsPrefix(Ops(steps), <<"write", "receivemessage">>)
            /\ CountOp(steps, "bindfail") = 0
            /\ Len(steps) >= 1 =>
                 /\ steps[1].arg \in 1..Len(out)
                 /\ SameLine(out[steps[1].arg],
                             [prefix |-> "ExecRV: ", port |-> 0,
                              command |-> cur.cmd, eol |-> "\n"])
            /\ (pc = "idle" /\ ret.exc # "KeyboardInterrupt") => Len(steps) = 2
            /\ (pc = "idle" /\ ret.tag = "return") => WholeMessage)
    /\ [][(cur.path = "reuse" /\ cur'.path = "reuse") =>
            /\ com' = com
            /\ created' = created
            /\ accepted' = accepted]_vars

C5_Witness ==
    /\ cur.path = "reuse"
    /\ relaycom = "None"
    /\ pc = "idle"
    /\ ret.tag = "return"
    /\ Len(steps) = 2

\* C6: the process constructs at most one communicator; once com exists it
\* stays and keeps its port; the port-bearing line is written at most once
\* and every later result-bearing line is port-less.
C6_OneEndpoint ==
    /\ [](/\ created <= 1
          /\ created = 1 => com.exists
          /\ Cardinality({i \in 1..Len(out) : out[i].prefix = "ExecRV%d: "}) <= 1
          /\ \A i, j \in 1..Len(out) :
                (i < j /\ out[i].prefix = "ExecRV%d: " /\ IsRVLine(out[j]))
                => out[j].prefix = "ExecRV: " /\ out[j].port = 0)
    /\ [][com.exists => com'.exists /\ com'.port = com.port]_vars

C6_Witness ==
    /\ created = 1
    /\ Len(out) = 2
    /\ out[1].prefix = "ExecRV%d: "
    /\ out[2].prefix = "ExecRV: "
    /\ pc = "idle"
    /\ ret.tag = "return"

\* C7 as stated: the endpoint does not exist at startup and the first
\* result-bearing dispatch takes the branch that opens one, whatever the
\* relay's get_com returned.
C7_FirstAlwaysOpens ==
    /\ (pc = "idle" /\ ncalls = 0) => ~com.exists
    /\ FirstRV => cur.path = "new"

\* C7 amended: the endpoint exists at startup exactly when the relay's
\* get_com returned a communicator; the first result-bearing dispatch opens
\* an endpoint when get_com returned None and reuses the relayed one
\* otherwise.
C7_FirstFollowsRelay ==
    /\ (pc = "idle" /\ ncalls = 0) => (com.exists <=> relaycom = "communicator")
    /\ FirstRV =>
         /\ relaycom = "None" => cur.path = "new"
         /\ relaycom = "communicator" => cur.path = "reuse" /\ created = 0
         /\ (relaycom = "None" /\ pc \in {"accept", "recvhdr", "recvpay", "idle"})
               => created = 1

C7_Witness ==
    /\ FirstRV
    /\ relaycom = "None"
    /\ cur.path = "new"
    /\ created = 1
    /\ pc = "idle"
    /\ ret.tag = "return"

\* C8: an endpoint holds at most one accepted connection: accept on an
\* endpoint whose sock is set raises "Connection has already been accepted"
\* without calling srvsock.accept, and sock stays what it was.
C8_AcceptOnce ==
    /\ [](accepted <= 1 /\ com.sock \in {NoSock, 1})
    /\ [][(pc = "accept" /\ com.sock # NoSock /\ pc' # pc) =>
            /\ pc' = "idle"
            /\ ret'.tag = "raise"
            /\ ret'.exc = "RuntimeError"
            /\ ret'.fmt = "Connection has already been accepted"
            /\ com' = com
            /\ accepted' = accepted
            /\ backlog' = backlog
            /\ steps' = steps]_vars

C8_Witness ==
    /\ cur.path = "accept"
    /\ pc = "idle"
    /\ ret.fmt = "Connection has already been accepted"
    /\ com.sock = 1
    /\ backlog = 1

\* C9: the constructor tries IPPORT_USERRESERVED, IPPORT_USERRESERVED + 1,
\* ... in this order, a failed candidate is an occupied port, the first
\* candidate that is free is bound, and the port recorded is the bound one.
C9_SmallestFreePort ==
    cur.path = "new" =>
        LET b == Binds(steps)
        IN  /\ \A i \in 1..Len(b) :
                  /\ b[i].arg = IPPORT_USERRESERVED + i - 1
                  /\ b[i].arg \in occupied
                  /\ b[i].op = "bind" <=> (i = Len(b) /\ pc # "bind")
            /\ pc = "bind" => port = IPPORT_USERRESERVED + Len(b)
            /\ pc # "bind" =>
                  /\ Len(b) >= 1
                  /\ \A q \in IPPORT_USERRESERVED..(b[Len(b)].arg - 1) : q \in occupied
                  /\ pc # "listen" => com.exists /\ com.port = b[Len(b)].arg

C9_Witness ==
    /\ cur.path = "new"
    /\ created = 1
    /\ CountOp(steps, "bindfail") = 1
    /\ com.port = IPPORT_USERRESERVED + 1

\* C10: when recv returns no bytes or raises before receive has read what
\* it was asked for, the dispatch ends there with
\* RuntimeError("Socket connection broken"): no value is returned and no
\* operation follows the failed receivemessage.
C10_BrokenPropagates ==
    (InDispatch /\ eof) =>
        /\ pc = "idle"
        /\ ret.tag = "raise"
        /\ ret.exc = "RuntimeError"
        /\ ret.fmt = broken
        /\ ret.val = <<>>
        /\ rvstat = "raised"
        /\ steps[Len(steps)].op = "receivemessage"
        /\ CountOp(steps, "receivemessage") = 1
        /\ CountOp(steps, "write") = 1
        /\ CountOp(steps, "accept") <= 1

C10_Witness ==
    /\ InDispatch
    /\ eof
    /\ got > 0
    /\ com.sock # NoSock
    /\ conn = "closed"
    /\ ret.fmt = broken

\* C11: receivemessage on a whole message: kind ERROR raises the host's
\* error whatever type is expected (none included); otherwise a type that
\* differs from the expected one raises "Unexpected message type received";
\* otherwise the payload is returned, paired with the type when no type
\* was expected.
C11_Classification ==
    (cur.path = "receivemessage" /\ pc = "idle" /\ WholeMessage) =>
        /\ \A c \in ErrorCodes, t \in 1..Len(ErrorTexts) :
              (hdr.type = ERROR /\ data = DumpsError(c, ErrorTexts[t])) =>
                  /\ ret.tag = "raise"
                  /\ ret.fmt = "YASARA raised error %d: %s"
                  /\ ret.args = <<c, ErrorTexts[t]>>
        /\ \A v \in ResultValues :
              (hdr.type # ERROR /\ data = DumpsList(v)) =>
                  IF cur.expected # NoExpected /\ hdr.type # cur.expected
                  THEN /\ ret.tag = "raise"
                       /\ ret.fmt = "Unexpected message type received"
                  ELSE IF cur.expected = NoExpected
                  THEN /\ ret.tag = "return"
                       /\ ret.withtype
                       /\ ret.type = hdr.type
                       /\ ret.val = <<v>>
                  ELSE /\ ret.tag = "return"
                       /\ ~ret.withtype
                       /\ ret.val = <<v>>

C11_Witness ==
    /\ cur.path = "receivemessage"
    /\ cur.expected = NoExpected
    /\ pc = "idle"
    /\ WholeMessage
    /\ hdr.type = OtherKind
    /\ ret.tag = "return"
    /\ ret.withtype
    /\ ret.type = OtherKind

\* C12: a value v framed as a RESULT message is returned as v by the
\* receivemessage that starts at the message's first byte, however recv
\* cuts header and payload into chunks; what receive holds is always the
\* bytes recv returned, in the order they arrived, and never more than
\* the size asked for.
C12_RoundTrip ==
    cur.path = "receivemessage" =>
        /\ data = SubSeq(Stream, Consumed - Len(data) + 1, Consumed)
        /\ pc = "recvhdr" => Len(data) < HEADER_SIZE
        /\ pc = "recvpay" => Len(data) < hdr.size
        /\ (pc = "idle" /\ WholeMessage) => Len(data) = hdr.size
        /\ \A i \in 1..Len(sent), v \in ResultValues :
              ( /\ Offset(i) = Consumed - got
                /\ sent[i] = Encode(RESULT, DumpsList(v))
                /\ cur.expected \in {RESULT, NoExpected}
                /\ pc = "idle"
                /\ ~eof )
              => /\ ret.tag = "return"
                 /\ ret.val = <<v>>
                 /\ got = Len(sent[i])

C12_Witness ==
    /\ cur.path = "receivemessage"
    /\ cur.expected = RESULT
    /\ pc = "idle"
    /\ Len(sent) = 2
    /\ sent[1] = Encode(RESULT, DumpsList(7))
    /\ Offset(1) = Consumed - got
    /\ wire = sent[2]
    /\ ret.tag = "return"
    /\ ret.val = <<7>>

\* C13: for the kinds 0 and 1 and every payload length packed, the header
\* receivemessage unpacks is exactly (kind, length); receivemessage takes
\* exactly 8 bytes for the header and then exactly length bytes for the
\* payload, and leaves nothing of the message on the wire.
C13_HeaderExact ==
    /\ UnpackHeader(PackHeader(fkind, flen)).type = fkind
    /\ UnpackHeader(PackHeader(fkind, flen)).size = flen
    /\ fhdr.set <=> fpc \in {"recvpay", "done"}
    /\ fhdr.set => (fhdr.type = fkind /\ fhdr.size = flen)
    /\ fpc = "recvhdr" => (fgot < HEADER_SIZE /\ fpay = 0)
    /\ fpc \in {"recvpay", "done"} => fgot = HEADER_SIZE
    /\ fpc = "recvpay" => (fpay < flen /\ Len(fdata) = fpay)
    /\ fpc = "done" =>
          /\ fpay = flen
          /\ fdata = [i \in 1..flen |-> PayloadByte(i)]
          /\ fwire = <<>>

C13_Witness ==
    /\ fpc = "done"
    /\ fkind = ERROR
    /\ flen = MaxLen
    /\ fgot = HEADER_SIZE
    /\ fpay = MaxLen

\* C18: once the satellite process has reached the relay, each session
\* global holds what the accessor of the same name returned (request from
\* get_request_str) and the working directory is the workdir the relay
\* returned; no command is dispatched before that.
C18_GlobalsFromRelay ==
    /\ pc = "start" => (ncalls = 0 /\ out = <<>> /\ glob = NoGlobals)
    /\ (pc # "start" /\ relaycom # "refused") =>
          \E w \in WorkDirs :
             LET root == RelayRoot(relaycom, w)
             IN  /\ glob.plugin = root.get_plugin
                 /\ glob.request = root.get_request_str
                 /\ glob.opsys = root.get_opsys
                 /\ glob.version = root.get_version
                 /\ glob.serialnumber = root.get_serialnumber
                 /\ glob.stage = root.get_stage
                 /\ glob.owner = root.get_owner
                 /\ glob.permissions = root.get_permissions
                 /\ glob.workdir = root.get_workdir
                 /\ glob.selection = root.get_selection
                 /\ glob.com = root.get_com
                 /\ cwd = root.get_workdir

C18_Witness ==
    /\ pc = "idle"
    /\ ncalls = 1
    /\ out # <<>>
    /\ glob.com = "communicator"
    /\ glob.owner = "yasara owner"
    /\ cwd = "/yasara"

\* C20: a dispatch writes one command line and no more, whatever its
\* outcome; it opens at most one endpoint, accepts at most once and calls
\* receivemessage at most once; when receiving fails (connection broken,
\* error message of the host, unexpected message type) the dispatch ends
\* with that failure after one write and one receivemessage.
C20_NoRetry ==
    InDispatch =>
        /\ CountOp(steps, "write") <= 1
        /\ CountOp(steps, "bind") <= 1
        /\ CountOp(steps, "listen") <= 1
        /\ CountOp(steps, "accept") <= 1
        /\ CountOp(steps, "receivemessage") <= 1
        /\ Len(out) = IF pc \in {"bind", "listen", "write"} THEN ncalls - 1 ELSE ncalls
        /\ (pc = "idle" /\ ret.tag # "nothing") => CountOp(steps, "write") = 1
        /\ (pc = "idle" /\ ret.tag = "raise"
              /\ ret.fmt \in {broken, "YASARA raised error %d: %s",
                              "Unexpected message type received"}) =>
              /\ CountOp(steps, "write") = 1
              /\ CountOp(steps, "receivemessage") = 1
              /\ steps[Len(steps)].op = "receivemessage"
              /\ rvstat = "raised"

C20_Witness ==
    /\ InDispatch
    /\ pc = "idle"
    /\ ret.tag = "raise"
    /\ ret.fmt = "Unexpected message type received"
    /\ CountOp(steps, "write") = 1
    /\ CountOp(steps, "accept") = 1
    /\ Len(out) = ncalls

\* C19: when the yasara module is absent or lacks an attribute of the
\* session, constructing the relay service raises inside __init__: no
\* server is created, the thread is never started, no client gets a
\* connection; and a client that has a connection has a root whose fields
\* are all set.
C19_FailsAtConstruction ==
    LET invalid == ~yas.module \/ \E f \in GlobalNames : yas.attrs[f] = "missing"
    IN  /\ invalid =>
              /\ mainpc \notin {"server", "start", "eventloop", "stop", "shutdown"}
              /\ mainpc = "end" => request = "CheckIfDisabled"
              /\ srv = "none"
              /\ thr \in {"none", "created"}
              /\ \A c \in Clients : cl[c].st = "off"
              /\ seen = NoSeen
        /\ mainpc = "raised" => (invalid /\ srv = "none" /\ thr = "created")
        /\ srv # "none" => \A f \in FieldNames : svc.fields[f] \notin {"unset", "missing"}
        /\ \A c \in Clients :
              cl[c].st # "off" =>
                 \A f \in FieldNames : cl[c].root[f] \notin {"unset", "missing"}

C19_Witness ==
    /\ mainpc = "raised"
    /\ yas = PartialYasara
    /\ svc.exists
    /\ svc.fields.workdir = "/yasara"
    /\ svc.fields.selection = "unset"
    /\ srv = "none"

\* C14: every accessor returns the value the yasara module had for the
\* matching attribute when the service was constructed
\* (get_connection_info: the connection file passed to the constructor);
\* the fields of the service do not change once the server exists, a
\* later call of the same accessor returns what the earlier one returned,
\* and the root of every connection is the one instance the server was
\* given.
C14_Snapshot ==
    /\ [] /\ \A c \in Clients : cl[c].st # "off" => cl[c].root = svc.fields
          /\ seen.acc = "get_plugin" => seen.val = yas.attrs.plugin
          /\ seen.acc = "get_request_str" => seen.val = yas.attrs.request
          /\ seen.acc = "get_opsys" => seen.val = yas.attrs.opsys
          /\ seen.acc = "get_version" => seen.val = yas.attrs.version
          /\ seen.acc = "get_serialnumber" => seen.val = yas.attrs.serialnumber
          /\ seen.acc = "get_stage" => seen.val = yas.attrs.stage
          /\ seen.acc = "get_owner" => seen.val = yas.attrs.owner
          /\ seen.acc = "get_permissions" => seen.val = yas.attrs.permissions
          /\ seen.acc = "get_workdir" => seen.val = yas.attrs.workdir
          /\ seen.acc = "get_selection" => seen.val = yas.attrs.selection
          /\ seen.acc = "get_com" => seen.val = yas.attrs.com
          /\ seen.acc = "get_connection_info" => seen.val = ConnectionFile
    /\ [][ /\ srv # "none" => svc' = svc
           /\ (seen.acc # "" /\ seen'.acc = seen.acc) => seen'.val = seen.val
         ]_vars

C14_Witness ==
    /\ seen.client = "kernel2"
    /\ seen.acc = "get_owner"
    /\ seen.val = "yasara owner"
    /\ cl["kernel1"].st = "flush"
    /\ cl["kernel2"].n = 1

\* how often x occurs in seq, and where it occurs first (0: nowhere)
CountIn(seq, x) == Cardinality({i \in 1..Len(seq) : seq[i] = x})
IndexIn(seq, x) ==
    IF CountIn(seq, x) = 0 THEN 0
    ELSE CHOOSE i \in 1..Len(seq) : seq[i] = x /\ \A j \in 1..(i - 1) : seq[j] # x

\* a client is inside exposed_stdout_relay
InRelay(c) == cl[c].st \in {"write", "flush"}

\* C15: when a stdout_relay call has returned, both parts of its text
\* have been delivered by the stream, once each and in order, and none of
\* it is still buffered; the texts of successive calls of one client are
\* delivered in the order of the calls; nothing is in the stream that no
\* call has written.
C15_RelayFlushed ==
    /\ \A c \in Clients : \A k \in 1..cl[c].n :
          /\ CountIn(sink, Piece(c, k, 1)) = 1
          /\ CountIn(sink, Piece(c, k, 2)) = 1
          /\ CountIn(sbuf, Piece(c, k, 1)) = 0
          /\ CountIn(sbuf, Piece(c, k, 2)) = 0
          /\ IndexIn(sink, Piece(c, k, 1)) < IndexIn(sink, Piece(c, k, 2))
          /\ k > 1 => IndexIn(sink, Piece(c, k - 1, 2)) < IndexIn(sink, Piece(c, k, 1))
    /\ \A i \in 1..Len(sink \o sbuf) :
          LET x == (sink \o sbuf)[i]
          IN  /\ CountIn(sink \o sbuf, x) = 1
              /\ x.call <= cl[x.client].n + (IF InRelay(x.client) THEN 1 ELSE 0)

C15_Witness ==
    /\ cl["kernel1"].st = "idle"
    /\ cl["kernel1"].n = 2
    /\ sbuf = <<>>
    /\ sink = <<Piece("kernel1", 1, 1), Piece("kernel1", 1, 2),
                Piece("kernel1", 2, 1), Piece("kernel1", 2, 2)>>

\* C16: the write and flush of one stdout_relay call are never interleaved
\* with those of another call: two clients are never inside stdout_relay
\* at once, and in the stream the first part of a text is directly
\* followed by its second part.
C16_AtomicRelay ==
    /\ \A c1, c2 \in Clients : (c1 # c2 /\ InRelay(c1)) => ~InRelay(c2)
    /\ \A i \in 1..Len(sink) :
          sink[i].part = 1 =>
             /\ i < Len(sink)
             /\ sink[i + 1] = Piece(sink[i].client, sink[i].call, 2)

C21_DisabledWhenMissing ==
    exitcode # NoExit =>
        exitcode = (IF has.ipython /\ has.rpyc /\ has.qtconsole THEN 0 ELSE 1)

\* the operations of one console launch, in their order
LaunchOrder ==
    <<"start_kernel", "start_channels", "control.show", "write_connection_file",
      "RpcServerThread", "rpc_serv.start", "start_event_loop_qt4", "stop_server",
      "stop_channels", "shutdown_kernel">>

\* the console window is on screen: shown, and the event loop has not returned
WindowOpen ==
    CountIn(log, "control.show") = 1 /\ CountIn(log, "start_event_loop_qt4") = 0

\* C25 as stated: the launch goes through its operations in the one order,
\* with one relay server, and the relay is serving whenever the console
\* window is open.
C25_ServingWhileOpen ==
    /\ IsPrefix(log, LaunchOrder)
    /\ WindowOpen => srv = "listening"

\* C25 amended: the launch goes through its operations in the one order,
\* so one relay server is constructed, after the connection file is
\* written and with that file as its connection info, and it is closed
\* after the event loop has returned and before the channels and the
\* kernel are stopped; the relay serves only between rpc_serv.start() and
\* stop_server, from the moment the server thread enters start(), which
\* may come after the window is shown and the event loop has begun.
C25_LaunchOrder ==
    /\ IsPrefix(log, LaunchOrder)
    /\ srv = "none" <=> CountIn(log, "RpcServerThread") = 0
    /\ srv # "none" => svc.fields.connection_info = ConnectionFile
    /\ srv = "listening" =>
          /\ CountIn(log, "rpc_serv.start") = 1
          /\ CountIn(log, "stop_server") = 0
          /\ thr = "serving"
    /\ CountIn(log, "stop_server") = 1 => srv \in {"closed", "dead"}
    /\ (WindowOpen /\ srv # "listening") =>
          (thr \in {"none", "created", "started"} \/ mainpc \in {"raised", "crashed"})

C25_Witness ==
    /\ log = LaunchOrder
    /\ mainpc = "end"
    /\ srv = "closed"
    /\ thr = "terminated"
    /\ \E c \in Clients : cl[c].n > 0


\* ------------------------------------------------------------------------
\* C27: whenever a dispatch takes the reuse branch (the line "ExecRV: " with
\* no port), the endpoint it reuses has an accepted connection: no dispatch
\* sends a port-less request on an endpoint that never accepted.
\* ------------------------------------------------------------------------
C27_ReuseConnected ==
    cur.path = "reuse" => com.sock # NoSock


\* ------------------------------------------------------------------------
\* C22: the endpoint only moves forward through UNBOUND, BOUND(port),
\* LISTENING, CONNECTED: no step takes it to an earlier state, once
\* CONNECTED it keeps its connection for good, and bytes of a message are
\* received, and a message is returned, only while it is CONNECTED.
\* ------------------------------------------------------------------------
UNBOUND == 1
BOUND == 2
LISTENING == 3
CONNECTED == 4

EndpointState(p, c) ==
    IF c.sock # NoSock THEN CONNECTED
    ELSE IF c.exists THEN LISTENING
    ELSE IF p = "listen" THEN BOUND
    ELSE IF p = "bind" THEN UNBOUND
    ELSE 0

C22_Forward ==
    [][/\ EndpointState(pc', com') >= EndpointState(pc, com)
       /\ EndpointState(pc', com') <= EndpointState(pc, com) + 1
       /\ EndpointState(pc, com) = CONNECTED => com' = com
       /\ EndpointState(pc, com) >= BOUND => port' = port
       /\ (got' > got \/ (ret' # ret /\ ret'.tag = "return"))
             => EndpointState(pc, com) = CONNECTED]_vars

C22_Witness ==
    /\ EndpointState(pc, com) = CONNECTED
    /\ cur.path = "receivemessage"
    /\ ret.tag = "return"
    /\ Binds(steps) = <<>>
    /\ com.port = IPPORT_USERRESERVED + NumBusy


\* ------------------------------------------------------------------------
\* C24: a result-bearing dispatch ends (returns or raises) only after a
\* complete framed message has been read or the transport has failed; there
\* is no timeout: while the host neither connects, answers nor closes, the
\* dispatch cannot take a step, and a partly received message does not end it.
\* ------------------------------------------------------------------------
DispatchEnds == cur.rv /\ pc \in {"bind", "listen", "write", "accept", "recvhdr", "recvpay"}
                   /\ pc' = "idle"

Blocked ==
    \/ pc = "accept" /\ backlog = 0
    \/ pc \in {"recvhdr", "recvpay"} /\ com.sock # NoSock /\ wire = <<>>
          /\ conn # "closed"

\* as stated: nothing else ends the wait
C24_OnlyMessageOrFailure ==
    [][DispatchEnds => (WholeMessage' \/ eof')]_vars

\* C24 (amended): a KeyboardInterrupt delivered while the dispatch is blocked
\* also ends it, by propagating to the caller
C24_BlocksUntilMessage ==
    /\ [](cur.rv /\ Blocked => ~ENABLED (bind \/ listen \/ WriteRequest \/ accept \/ receive))
    /\ [][DispatchEnds => \/ WholeMessage'
                          \/ eof'
                          \/ (Interrupt /\ ret' = KeyboardInterrupt)]_vars

C24_Witness ==
    /\ cur.rv
    /\ pc = "recvpay"
    /\ Blocked
    /\ stalled
    /\ got > HEADER_SIZE
    /\ ~WholeMessage


\* ------------------------------------------------------------------------
\* C28: a receivemessage that starts on a message boundary and gets the
\* complete message the host sent consumes exactly that message (8 + size
\* bytes), also when it raises for an ERROR message or an unexpected kind:
\* the connection stays aligned, and a result-bearing dispatch on the reused
\* endpoint ends with the outcome of the response to its own command.
\* ------------------------------------------------------------------------
MsgHeader(b) == UnpackHeader(SubSeq(b, 1, HEADER_SIZE))
WholeMsg(b) == Len(b) >= HEADER_SIZE /\ Len(b) = HEADER_SIZE + MsgHeader(b).size
MsgPayload(b) == SubSeq(b, HEADER_SIZE + 1, Len(b))

\* the receivemessage of the dispatch in progress started at the response to
\* the latest result-bearing line, and that response has been sent whole
OwnResponse ==
    LET k == CountRV(out)
    IN  /\ k >= 1 /\ k <= Len(sent)
        /\ Consumed - got = Offset(k)
        /\ WholeMsg(sent[k])

C28_Aligned ==
    [][(/\ pc \in {"recvhdr", "recvpay"} /\ pc' = "idle"
        /\ ret' # KeyboardInterrupt /\ ~eof'
        /\ OwnResponse)
       => LET b == sent[CountRV(out)]
          IN  /\ got' = Len(b)
              /\ Len(Stream) - Len(wire') = Offset(CountRV(out) + 1)
              /\ ret' = receivemessage(MsgHeader(b).type, MsgPayload(b), cur.expected)]_vars

C28_Witness ==
    /\ pc = "idle"
    /\ cur.path = "reuse"
    /\ CountRV(out) = 2
    /\ Len(sent) = 2
    /\ MsgHeader(sent[1]).type = ERROR
    /\ Len(sent[1]) > HEADER_SIZE
    /\ WholeMsg(sent[1]) /\ WholeMsg(sent[2])
    /\ Consumed = Offset(3)
    /\ ret = Returned(<<7>>)


\* ------------------------------------------------------------------------
\* C30: when the relay refuses the connection at startup, the module
\* initialisation ends without raising, the working directory and the
\* session globals are untouched, no endpoint exists, and every dispatch,
\* result-bearing or not, ends with a NameError before anything is written
\* to the host input stream.
\* ------------------------------------------------------------------------
C30_RefusedStartup ==
    relaycom = "refused" =>
        /\ pc = "idle"
        /\ cwd = "/"
        /\ glob = NoGlobals
        /\ com = NoCom
        /\ created = 0
        /\ out = <<>>
        /\ steps = <<>>
        /\ ncalls > 0 => /\ cur.path = "unbound"
                         /\ ret = NameError(FirstGlobal(cur.rv))

C30_Witness ==
    /\ relaycom = "refused"
    /\ ncalls = 2
    /\ cur.rv
    /\ ret = NameError("com")


\* ------------------------------------------------------------------------
\* C23: the constructor never reports a bind failure: each failed bind is
\* followed by a bind of the port one higher, without a cap; when a port at
\* or above the starting port is free it ends with an endpoint listening on
\* the lowest free one; when none is free, also once the candidate has left
\* the valid port range, it neither returns nor raises.
\* ------------------------------------------------------------------------
HasFree == otop < MAXPORT

C23_RetryForever ==
    /\ [](opc # "raised")
    /\ [](~HasFree => opc \in {"init", "bind"} /\ ocom = NoCom)
    /\ [](opc = "done" => ocom = [exists |-> TRUE, port |-> otop + 1, sock |-> NoSock])
    /\ [][opc = "bind" /\ opc' = "bind" => oport' = oport + 1]_vars
    /\ [][opc = "bind" /\ opc' # "bind" => (opc' = "listen" /\ oport' = oport)]_vars
    /\ (HasFree ~> opc = "done")
    /\ (~HasFree ~> oport = MAXPORT + MaxBeyond)

C23_Witness ==
    /\ opc = "bind"
    /\ ~HasFree
    /\ oport > MAXPORT


\* ------------------------------------------------------------------------
\* C26: Finish, Wait and StopLog always dispatch with retvalused true: the
\* dispatch takes a result-bearing branch and writes a result-bearing line,
\* and the function returns only after the host has answered and a whole
\* RESULT message has been received in that dispatch.
\* ------------------------------------------------------------------------
Synchronising == {"Finish", "Wait", "StopLog"}

C26_SyncRoundTrip ==
    /\ [](cur.fn \in Synchronising =>
             /\ cur.rv
             /\ cur.path \in {"new", "reuse", "unbound"}
             /\ \A i \in 1..Len(steps) :
                   steps[i].op = "write" => IsRVLine(out[steps[i].arg]))
    /\ [][(cur.fn \in Synchronising /\ pc # "idle" /\ pc' = "idle"
             /\ ret'.tag # "raise")
          => /\ pc \in {"recvhdr", "recvpay"}
             /\ WholeMessage'
             /\ hdr'.type = RESULT
             /\ ret'.tag = "return"
             /\ CountOp(steps', "write") = 1
             /\ answered >= 1]_vars

C26_Witness ==
    /\ ncalls = 2
    /\ cur.fn = "Finish"
    /\ cur.cmd = "CountObj all"
    /\ cur.path = "reuse"
    /\ pc = "idle"
    /\ ret = Returned(<<7>>)
    /\ answered = 2
    /\ wire = <<>>

====
